---- MODULE Spec2Model ----
(***************************************************************************)
(* Recording-session lifecycle of vox: the terminal front end (vox.py) and *)
(* the graphical front end (vox_gui.py).                                   *)
(*                                                                         *)
(* A process owns the module globals recording_process, audio_data and     *)
(* stop_event; all processes share the home directory (the two marker      *)
(* files and the waveform files).  Every thread of a process is a record   *)
(* with a program counter named after the source line it is about to       *)
(* execute: "L<n>" is line n of vox.py, "G<n>" is line n of vox_gui.py.    *)
(* A Python signal handler runs on the main thread between two bytecodes:  *)
(* it is the pseudo-thread "sig", and "main" does not step while it runs.  *)
(***************************************************************************)
EXTENDS Integers, Sequences, FiniteSets, TLC

VARIABLES
    now,                 \* wall clock, in whole seconds (time.time / time.strftime)
    PID_FILE,            \* ~/.recordpid: <<>> when absent, <<text>> when present
    AUDIO_FILE_TRACKER,  \* ~/.recordaudio: <<>> when absent, <<path>> when present
    wav,                 \* waveform files: path -> <<>> or <<[rate, channels, data]>>
    json_file,           \* <path>.json: path -> <<>> or <<content>>
    txt_file,            \* <path>.txt: path -> <<>> or <<text>>
    error_file,          \* <path>.error: path -> <<>> or <<text>>
    clipboard,           \* the system clipboard: <<>> or <<text>>
    kind,                \* front end of each process: "cli", "gui" or "off"
    api_key,             \* whether the Deepgram credential is set
    max_duration,        \* MAX_DURATION / self.max_duration
    stale,               \* which markers a crashed prior run had left at launch
    recording_process,   \* the global: 0 is None, h > 0 the stream of session h
    stream,              \* state of each sd.InputStream of the process
    audio_data,          \* the global list of captured blocks
    stop_event,          \* the global threading.Event
    delivered,           \* blocks the driver has handed to the callback (this stream)
    th,                  \* threads: process -> thread id -> record
    exit,                \* "running" or how the process ended
    session,             \* sessions started by the process so far
    target,              \* audio_file allocated by the latest start_recording
    nsig,                \* signals received so far
    manual,              \* a manual stop (Enter / Stop button) was given in this session
    stopLen,             \* <<>> or <<n>>: blocks in the buffer when stop was first requested
    nwrites,             \* wavfile.write calls per session
    nreq,                \* transcription requests posted per session
    ui                   \* widgets of the window (vox_gui.py)

(* ------------------------------ bounds -------------------------------- *)
MaxTime == 2
MaxBlocks == 2
MaxDur == 1
MaxSignals == 1
MaxSessions == 2
FramesPerBlock == 2

(* -------------------------- program constants ------------------------- *)
SAMPLE_RATE == 16000
CHANNELS == 1

Procs == {1, 2}
Paths == 0..MaxTime
Sessions == 1..MaxSessions
None == 0

side == <<json_file, txt_file, error_file, clipboard>>
fsv == <<PID_FILE, AUDIO_FILE_TRACKER, wav, side>>
cfg == <<kind, api_key, max_duration, stale>>
ghost == <<nsig, manual, stopLen, nwrites, nreq>>
vars == <<now, PID_FILE, AUDIO_FILE_TRACKER, wav, side, kind, api_key, max_duration, stale,
          recording_process, stream, audio_data, stop_event, delivered, th,
          exit, session, target, nsig, manual, stopLen, nwrites, nreq, ui>>

(* ------------------------------ helpers ------------------------------- *)
\* the timeout watcher thread of session s (vox_gui.py, recording_thread)
WName == <<"w1", "w2", "w3", "w4">>
Watchers == {WName[s] : s \in Sessions}
Threads == {"main", "sig", "mon", "cb"} \cup Watchers

T0 == [pc |-> "off", ret |-> "off", file |-> <<>>, dl |-> 0, ses |-> 0, fin |-> 0,
       response |-> <<>>]

\* the window after VoxWindow.__init__ (setup_ui)
Ui0 == [start_button |-> TRUE, stop_button |-> FALSE, inputs |-> TRUE,
        central |-> TRUE, status |-> "Ready to record", quitting |-> FALSE,
        copy_button |-> FALSE, transcript |-> <<>>]

\* the block the driver delivers as the i-th of stream h of process p:
\* FramesPerBlock consecutive samples, each one of a kind
Block(p, h, i) == [j \in 1..FramesPerBlock |-> <<p, h, i, j>>]

RECURSIVE Concatenate(_)
Concatenate(blocks) ==
    IF blocks = <<>> THEN <<>>
    ELSE Head(blocks) \o Concatenate(Tail(blocks))

\* thread t of process p may take a step
Runs(p, t) ==
    /\ exit[p] = "running"
    /\ t = "main" => th[p]["sig"].pc = "off"

At(p, t, l) == Runs(p, t) /\ th[p][t].pc = l

Goto(p, t, l) == th' = [th EXCEPT ![p][t].pc = l]

\* the thread's function returns for good: its locals are gone
End(p, t, l) == th' = [th EXCEPT ![p][t] = [T0 EXCEPT !.pc = l]]

Call(p, t, l, r) == th' = [th EXCEPT ![p][t].pc = l, ![p][t].ret = r]

\* stop_event.set(): the first request of a session records the buffer length
RequestStop(p) ==
    /\ stop_event' = [stop_event EXCEPT ![p] = TRUE]
    /\ stopLen' = [stopLen EXCEPT
                     ![p] = IF stopLen[p] = <<>> /\ ~stop_event[p]
                            THEN <<Len(audio_data[p])>> ELSE @]

Min(a, b) == IF a < b THEN a ELSE b

(* ------------------------------- Init --------------------------------- *)
\* The state at launch of the processes ks (front end of each).  The pid
\* marker of a crashed prior run names that run's process (2); its path
\* marker names a recording of an earlier second (0).
Boot(ks) ==
    /\ now = 1
    /\ kind = ks
    /\ wav = [f \in Paths |-> <<>>]
    /\ json_file = [f \in Paths |-> <<>>]
    /\ clipboard = <<>>
    /\ api_key \in {[p \in Procs |-> b] : b \in BOOLEAN}
    /\ max_duration \in {[p \in Procs |-> d] : d \in 1..MaxDur}
    /\ recording_process = [p \in Procs |-> None]
    /\ stream = [p \in Procs |-> [h \in Sessions |-> "none"]]
    /\ audio_data = [p \in Procs |-> <<>>]
    /\ stop_event = [p \in Procs |-> FALSE]
    /\ delivered = [p \in Procs |-> 0]
    /\ th = [p \in Procs |-> [t \in Threads |->
                IF t = "main" /\ ks[p] = "cli" THEN [T0 EXCEPT !.pc = "L206"]
                ELSE IF t = "main" /\ ks[p] = "gui" THEN [T0 EXCEPT !.pc = "idle"]
                ELSE IF t = "cb" THEN [T0 EXCEPT !.pc = "idle"]
                ELSE T0]]
    /\ exit = [p \in Procs |-> IF ks[p] = "off" THEN "off" ELSE "running"]
    /\ session = [p \in Procs |-> 0]
    /\ target = [p \in Procs |-> <<>>]
    /\ nsig = [p \in Procs |-> 0]
    /\ manual = [p \in Procs |-> FALSE]
    /\ stopLen = [p \in Procs |-> <<>>]
    /\ nwrites = [p \in Procs |-> [s \in Sessions |-> 0]]
    /\ nreq = [p \in Procs |-> [s \in Sessions |-> 0]]
    /\ ui = [p \in Procs |-> Ui0]

\* One live process of either front end; process 2 stands for a prior run
\* that may have crashed and left either marker behind.
Init ==
    /\ \E k \in {"cli", "gui"} : Boot([p \in Procs |-> IF p = 1 THEN k ELSE "off"])
    /\ stale \in [pid : BOOLEAN, tracker : BOOLEAN]
    /\ PID_FILE = IF stale.pid THEN <<2>> ELSE <<>>
    /\ AUDIO_FILE_TRACKER = IF stale.tracker THEN <<0>> ELSE <<>>
    /\ txt_file = [f \in Paths |-> <<>>]
    /\ error_file = [f \in Paths |-> <<>>]

(* ------------------------------ the clock ----------------------------- *)
\* A second passes.  Statements take no time to speak of: time is let pass
\* only while every running process is blocked (in a timed wait or in the
\* event loop, which returns at once when asked to quit) or has yet to be
\* launched.
Blocked(p) ==
    /\ exit[p] = "running"
    /\ th[p]["sig"].pc = "off"
    /\ \/ th[p]["main"].pc \in {"L206", "L125"}
       \/ th[p]["main"].pc = "idle" /\ ~ui[p].quitting
       \/ \E w \in Watchers : th[p][w].pc = "G270"

Tick ==
    /\ now < MaxTime
    /\ \A p \in Procs : exit[p] = "running" => Blocked(p)
    /\ now' = now + 1
    /\ UNCHANGED <<fsv, cfg, ui, recording_process, stream, audio_data, stop_event,
                   delivered, th, exit, session, target, ghost>>

(* ----------------------- vox.py: the audio callback ------------------- *)
\* line 59: the driver delivers a block; the callback tests stop_event
callback(p) ==
    /\ kind[p] = "cli"
    /\ At(p, "cb", "idle")
    /\ delivered[p] < MaxBlocks
    /\ \E h \in Sessions :
         /\ stream[p][h] = "active"
         /\ delivered' = [delivered EXCEPT ![p] = @ + 1]
         /\ th' = [th EXCEPT ![p]["cb"] =
                     IF stop_event[p] THEN @
                     ELSE [@ EXCEPT !.pc = "L60", !.ses = h, !.dl = delivered[p] + 1]]
    /\ UNCHANGED <<now, fsv, cfg, ui, recording_process, stream, audio_data, stop_event,
                   exit, session, target, ghost>>

\* line 60: audio_data.append(indata.copy())
callback_append(p) ==
    /\ kind[p] = "cli"
    /\ At(p, "cb", "L60")
    /\ audio_data' = [audio_data EXCEPT
                        ![p] = Append(@, Block(p, th[p]["cb"].ses, th[p]["cb"].dl))]
    /\ End(p, "cb", "idle")
    /\ UNCHANGED <<now, fsv, cfg, ui, recording_process, stream, stop_event, delivered,
                   exit, session, target, ghost>>

(* --------------------------- vox.py: cleanup -------------------------- *)
\* line 66: if recording_process:
cleanup_test(p, t) ==
    /\ kind[p] = "cli"
    /\ At(p, t, "L66")
    /\ Goto(p, t, IF recording_process[p] # None THEN "L67" ELSE "L70")
    /\ UNCHANGED <<now, fsv, cfg, ui, recording_process, stream, audio_data, stop_event,
                   delivered, exit, session, target, ghost>>

\* lines 67-69: recording_process.stop() returns once the running callback
\* has returned; recording_process.close(); recording_process = None
cleanup_close(p, t) ==
    /\ kind[p] = "cli"
    /\ At(p, t, "L67")
    /\ recording_process[p] # None
    /\ LET h == recording_process[p] IN
         /\ stream[p][h] = "active" => th[p]["cb"].pc = "idle"
         /\ stream' = [stream EXCEPT ![p][h] = "closed"]
    /\ recording_process' = [recording_process EXCEPT ![p] = None]
    /\ Goto(p, t, "L70")
    /\ UNCHANGED <<now, fsv, cfg, ui, audio_data, stop_event, delivered, exit,
                   session, target, ghost>>

\* line 70 left out: only the path marker is unlinked
cleanup_unlink_tracker(p, t) ==
    /\ kind[p] = "cli"
    /\ At(p, t, "L70")
    /\ AUDIO_FILE_TRACKER' = <<>>
    /\ Goto(p, t, th[p][t].ret)
    /\ UNCHANGED <<now, PID_FILE, wav, side, cfg, ui, recording_process, stream, audio_data,
                   stop_event, delivered, exit, session, target, ghost>>

\* lines 70-71: both markers are unlinked (missing_ok=True), cleanup returns
cleanup_unlink(p, t) ==
    /\ kind[p] = "cli"
    /\ At(p, t, "L70")
    /\ PID_FILE' = <<>>
    /\ AUDIO_FILE_TRACKER' = <<>>
    /\ Goto(p, t, th[p][t].ret)
    /\ UNCHANGED <<now, wav, side, cfg, ui, recording_process, stream, audio_data,
                   stop_event, delivered, exit, session, target, ghost>>

cleanup(p, t) ==
    \/ cleanup_test(p, t)
    \/ cleanup_close(p, t)
    \/ cleanup_unlink(p, t)

(* ---------------------- vox.py: main, check_environment --------------- *)
\* lines 206, 43-52: a missing credential ends the process with status 1
check_environment(p) ==
    /\ At(p, "main", "L206")
    /\ IF api_key[p]
       THEN Goto(p, "main", "L207") /\ UNCHANGED exit
       ELSE exit' = [exit EXCEPT ![p] = "exit1"] /\ UNCHANGED th
    /\ UNCHANGED <<now, fsv, cfg, ui, recording_process, stream, audio_data, stop_event,
                   delivered, session, target, ghost>>

\* lines 207-211: install the SIGINT handler, call start_recording, whose
\* first statement (line 99) calls cleanup
main_signal(p) ==
    /\ At(p, "main", "L207")
    /\ Call(p, "main", "L66", "L100")
    /\ session' = [session EXCEPT ![p] = @ + 1]
    /\ UNCHANGED <<now, fsv, cfg, ui, recording_process, stream, audio_data, stop_event,
                   delivered, exit, target, ghost>>

HandlerInstalled(p) == th[p]["main"].pc \notin {"L206", "L207"}

(* ------------------------ vox.py: start_recording --------------------- *)
\* lines 100-103: the target path is named after the current second and
\* written to the path marker
start_recording_tracker(p) ==
    /\ At(p, "main", "L100")
    /\ target' = [target EXCEPT ![p] = <<now>>]
    /\ AUDIO_FILE_TRACKER' = <<now>>
    /\ Goto(p, "main", "L106")
    /\ UNCHANGED <<now, PID_FILE, wav, side, cfg, ui, recording_process, stream, audio_data,
                   stop_event, delivered, exit, session, ghost>>

\* lines 106-107: audio_data.clear(); stop_event.clear()
start_recording_clear(p) ==
    /\ At(p, "main", "L106")
    /\ audio_data' = [audio_data EXCEPT ![p] = <<>>]
    /\ stop_event' = [stop_event EXCEPT ![p] = FALSE]
    /\ stopLen' = [stopLen EXCEPT ![p] = <<>>]
    /\ manual' = [manual EXCEPT ![p] = FALSE]
    /\ Goto(p, "main", "L108")
    /\ UNCHANGED <<now, fsv, cfg, ui, recording_process, stream, delivered, exit,
                   session, target, nsig, nwrites, nreq>>

\* lines 108-110: recording_process = sd.InputStream(...); opening the device
\* may raise, and nothing catches it
start_recording_open(p) ==
    /\ At(p, "main", "L108")
    /\ \/ /\ recording_process' = [recording_process EXCEPT ![p] = session[p]]
          /\ stream' = [stream EXCEPT ![p][session[p]] = "open"]
          /\ delivered' = [delivered EXCEPT ![p] = 0]
          /\ Goto(p, "main", "L111")
          /\ UNCHANGED exit
       \/ /\ exit' = [exit EXCEPT ![p] = "traceback"]
          /\ UNCHANGED <<recording_process, stream, delivered, th>>
    /\ UNCHANGED <<now, fsv, cfg, ui, audio_data, stop_event, session, target, ghost>>

\* line 111: recording_process.start()
start_recording_start(p) ==
    /\ At(p, "main", "L111")
    /\ \/ /\ stream' = [stream EXCEPT ![p][recording_process[p]] = "active"]
          /\ Goto(p, "main", "L112")
          /\ UNCHANGED exit
       \/ /\ exit' = [exit EXCEPT ![p] = "traceback"]
          /\ UNCHANGED <<stream, th>>
    /\ UNCHANGED <<now, fsv, cfg, ui, recording_process, audio_data, stop_event,
                   delivered, session, target, ghost>>

\* lines 112-113: the pid marker
start_recording_pid(p) ==
    /\ At(p, "main", "L112")
    /\ PID_FILE' = <<p>>
    /\ Goto(p, "main", "L116")
    /\ UNCHANGED <<now, AUDIO_FILE_TRACKER, wav, side, cfg, ui, recording_process, stream,
                   audio_data, stop_event, delivered, exit, session, target, ghost>>

\* lines 116-125: start the counter and the input monitor, then enter
\* stop_event.wait(timeout=MAX_DURATION)
start_recording_threads(p) ==
    /\ At(p, "main", "L116")
    /\ th' = [th EXCEPT ![p]["main"].pc = "L125",
                        ![p]["main"].dl = now + max_duration[p],
                        ![p]["mon"].pc = "L120",
                        ![p]["mon"].dl = now + max_duration[p]]
    /\ UNCHANGED <<now, fsv, cfg, ui, recording_process, stream, audio_data, stop_event,
                   delivered, exit, session, target, ghost>>

\* lines 119-122: select returns stdin as readable before its timeout, and
\* the monitor sets stop_event
monitor_input(p) ==
    /\ At(p, "mon", "L120")
    /\ now < th[p]["mon"].dl
    /\ RequestStop(p)
    /\ manual' = [manual EXCEPT ![p] = TRUE]
    /\ End(p, "mon", "off")
    /\ UNCHANGED <<now, fsv, cfg, ui, recording_process, stream, audio_data, delivered,
                   exit, session, target, nsig, nwrites, nreq>>

\* line 125: the wait returns when the event is set or the timeout has elapsed
start_recording_wait(p) ==
    /\ At(p, "main", "L125")
    /\ stop_event[p] \/ now >= th[p]["main"].dl
    /\ Goto(p, "main", "L126")
    /\ UNCHANGED <<now, fsv, cfg, ui, recording_process, stream, audio_data, stop_event,
                   delivered, exit, session, target, ghost>>

\* lines 126-128: set the event if the timeout was reached, call stop_recording
start_recording_timeout(p) ==
    /\ At(p, "main", "L126")
    /\ RequestStop(p)
    /\ Goto(p, "main", "L135")
    /\ UNCHANGED <<now, fsv, cfg, ui, recording_process, stream, audio_data, delivered,
                   exit, session, target, nsig, manual, nwrites, nreq>>

(* ------------------------- vox.py: stop_recording --------------------- *)
\* line 135: if PID_FILE.exists() and recording_process; otherwise
\* lines 148-149 ("No recording to stop.", cleanup)
stop_recording_check(p) ==
    /\ At(p, "main", "L135")
    /\ IF PID_FILE # <<>> /\ recording_process[p] # None
       THEN Goto(p, "main", "L136")
       ELSE Call(p, "main", "L66", "L150")
    /\ UNCHANGED <<now, fsv, cfg, ui, recording_process, stream, audio_data, stop_event,
                   delivered, exit, session, target, ghost>>

\* line 136: stop_event.set()
stop_recording_set(p) ==
    /\ At(p, "main", "L136")
    /\ RequestStop(p)
    /\ Goto(p, "main", "L137")
    /\ UNCHANGED <<now, fsv, cfg, ui, recording_process, stream, audio_data, delivered,
                   exit, session, target, nsig, manual, nwrites, nreq>>

\* line 137: audio_file = AUDIO_FILE_TRACKER.read_text().strip(); a missing
\* marker raises FileNotFoundError, which nothing catches
stop_recording_read(p) ==
    /\ At(p, "main", "L137")
    /\ IF AUDIO_FILE_TRACKER # <<>>
       THEN /\ th' = [th EXCEPT ![p]["main"].pc = "L138",
                                ![p]["main"].file = AUDIO_FILE_TRACKER]
            /\ UNCHANGED exit
       ELSE /\ exit' = [exit EXCEPT ![p] = "traceback"]
            /\ UNCHANGED th
    /\ UNCHANGED <<now, fsv, cfg, ui, recording_process, stream, audio_data, stop_event,
                   delivered, session, target, ghost>>

\* line 138: if audio_data; otherwise lines 144-145
stop_recording_test(p) ==
    /\ At(p, "main", "L138")
    /\ IF audio_data[p] # <<>>
       THEN Goto(p, "main", "L139")
       ELSE Call(p, "main", "L66", "L146")
    /\ UNCHANGED <<now, fsv, cfg, ui, recording_process, stream, audio_data, stop_event,
                   delivered, exit, session, target, ghost>>

\* the file wavfile.write(audio_file, SAMPLE_RATE, np.concatenate(audio_data))
\* leaves: the channel count is that of the blocks of the stream
WaveFile(blocks) ==
    [rate |-> SAMPLE_RATE, channels |-> CHANNELS, data |-> Concatenate(blocks)]

\* lines 139-140: write the waveform, then call cleanup
stop_recording_write(p) ==
    /\ At(p, "main", "L139")
    /\ wav' = [wav EXCEPT ![th[p]["main"].file[1]] = <<WaveFile(audio_data[p])>>]
    /\ nwrites' = [nwrites EXCEPT ![p][session[p]] = Min(@ + 1, 2)]
    /\ Call(p, "main", "L66", "L142")
    /\ UNCHANGED <<now, PID_FILE, AUDIO_FILE_TRACKER, side, cfg, ui, recording_process, stream,
                   audio_data, stop_event, delivered, exit, session, target, nsig,
                   manual, stopLen, nreq>>

\* lines 142, 211-213: return audio_file; main calls transcribe
stop_recording_return(p) ==
    /\ At(p, "main", "L142")
    /\ Goto(p, "main", "L155")
    /\ UNCHANGED <<now, fsv, cfg, ui, recording_process, stream, audio_data, stop_event,
                   delivered, exit, session, target, ghost>>

\* lines 146 and 150: sys.exit(1)
stop_recording_exit(p) ==
    /\ \/ At(p, "main", "L146")
       \/ At(p, "main", "L150")
    /\ exit' = [exit EXCEPT ![p] = "exit1"]
    /\ UNCHANGED <<now, fsv, cfg, ui, recording_process, stream, audio_data, stop_event,
                   delivered, th, session, target, ghost>>

(* ---------------------- the transcription endpoint ------------------- *)
\* characters str.rstrip() removes
Whitespace == {" ", "\n"}

\* str.rstrip(): the text without its trailing whitespace
RECURSIVE rstrip(_)
rstrip(text) ==
    IF text # <<>> /\ text[Len(text)] \in Whitespace
    THEN rstrip(SubSeq(text, 1, Len(text) - 1))
    ELSE text

\* transcripts the endpoint may return: texts are sequences of characters
Transcripts == {<<"h", "i">>, <<"h", "i", " ", "\n">>, <<>>}

\* a response body of the shape the code indexes, with its alternatives
Body(alternatives) ==
    [metadata |-> "m", results |-> [channels |-> <<[alternatives |-> alternatives]>>]]

\* bodies of a 2xx answer: with a transcript, without the transcript key,
\* with no alternative, with no channel, without results
Bodies ==
    {Body(<<[transcript |-> t, confidence |-> "c"]>>) : t \in Transcripts}
    \cup {Body(<<[confidence |-> "c"]>>),
          Body(<<>>),
          [metadata |-> "m", results |-> [channels |-> <<>>]],
          [metadata |-> "m"]}

\* what requests.post returns: answers with status 200 and a JSON body, an
\* answer with status 200 whose body is no JSON, an answer with status 500
Responses ==
    {[status |-> 200, json |-> TRUE, body |-> b] : b \in Bodies}
    \cup {[status |-> 200, json |-> FALSE, body |-> [text |-> "html"]],
          [status |-> 500, json |-> TRUE, body |-> [err_msg |-> "internal"]]}

\* the answer of an endpoint that transcribes
PlainResponses ==
    {[status |-> 200, json |-> TRUE,
      body |-> Body(<<[transcript |-> <<"h", "i">>, confidence |-> "c"]>>)]}

\* response.raise_for_status() raises on 4xx and 5xx
raise_for_status(response) == response.status >= 400 /\ response.status < 600

\* response.json()["results"]["channels"][0]["alternatives"][0]["transcript"]:
\* a missing key raises KeyError, an empty list IndexError
extract(body) ==
    IF "results" \notin DOMAIN body THEN <<"KeyError">>
    ELSE IF "channels" \notin DOMAIN body.results THEN <<"KeyError">>
    ELSE IF Len(body.results.channels) = 0 THEN <<"IndexError">>
    ELSE IF "alternatives" \notin DOMAIN body.results.channels[1] THEN <<"KeyError">>
    ELSE IF Len(body.results.channels[1].alternatives) = 0 THEN <<"IndexError">>
    ELSE IF "transcript" \notin DOMAIN body.results.channels[1].alternatives[1]
         THEN <<"KeyError">>
    ELSE <<"ok", body.results.channels[1].alternatives[1].transcript>>

\* the file open(json_file, "w") leaves when json.dump never gets to write
EmptyFile == [empty |-> TRUE]

\* str(e) of the requests.RequestException caught at line 189: a connection
\* error (no response), an HTTPError of raise_for_status, a JSONDecodeError
Detail(response) ==
    IF response = <<>> THEN "Connection refused"
    ELSE IF raise_for_status(response[1]) THEN "500 Server Error"
    ELSE "Expecting value"

(* --------------------------- vox.py: transcribe ----------------------- *)
\* lines 155-157: the audio file must exist, or the process ends with 1
transcribe_exists(p) ==
    /\ At(p, "main", "L155")
    /\ IF wav[th[p]["main"].file[1]] # <<>>
       THEN Goto(p, "main", "L164") /\ UNCHANGED exit
       ELSE Goto(p, "main", "L157") /\ exit' = [exit EXCEPT ![p] = "exit1"]
    /\ UNCHANGED <<now, fsv, cfg, ui, recording_process, stream, audio_data, stop_event,
                   delivered, session, target, ghost>>

\* lines 163-171: one request; it raises a connection error or returns a
\* response
transcribe_post(p) ==
    /\ At(p, "main", "L164")
    /\ nreq' = [nreq EXCEPT ![p][session[p]] = Min(@ + 1, 2)]
    /\ \/ th' = [th EXCEPT ![p]["main"].pc = "L190", ![p]["main"].response = <<>>]
       \/ \E r \in Responses :
            th' = [th EXCEPT ![p]["main"].pc = "L172", ![p]["main"].response = <<r>>]
    /\ UNCHANGED <<now, fsv, cfg, ui, recording_process, stream, audio_data, stop_event,
                   delivered, exit, session, target, nsig, manual, stopLen, nwrites>>

\* line 172: response.raise_for_status()
transcribe_status(p) ==
    /\ At(p, "main", "L172")
    /\ Goto(p, "main", IF raise_for_status(th[p]["main"].response[1])
                       THEN "L190" ELSE "L173")
    /\ UNCHANGED <<now, fsv, cfg, ui, recording_process, stream, audio_data, stop_event,
                   delivered, exit, session, target, ghost>>

\* lines 173-174: open(json_file, "w") and json.dump(response.json(), f).
\* A body that is no JSON leaves the file empty: response.json() raises a
\* JSONDecodeError, which is a RequestException in requests 2.27 and later
\* and a plain ValueError, caught by nothing, before
transcribe_json(p) ==
    /\ At(p, "main", "L173")
    /\ LET r == th[p]["main"].response[1]
           f == th[p]["main"].file[1]
       IN IF r.json
          THEN /\ json_file' = [json_file EXCEPT ![f] = <<r.body>>]
               /\ Goto(p, "main", "L181")
               /\ UNCHANGED exit
          ELSE /\ json_file' = [json_file EXCEPT ![f] = <<EmptyFile>>]
               /\ \/ Goto(p, "main", "L190") /\ UNCHANGED exit
                  \/ exit' = [exit EXCEPT ![p] = "traceback"] /\ UNCHANGED th
    /\ UNCHANGED <<now, PID_FILE, AUDIO_FILE_TRACKER, wav, txt_file, error_file,
                   clipboard, cfg, ui, recording_process, stream, audio_data,
                   stop_event, delivered, session, target, ghost>>

\* lines 181-183: the transcript is taken out of the body, or KeyError or
\* IndexError is raised
transcribe_extract(p) ==
    /\ At(p, "main", "L181")
    /\ Goto(p, "main", IF extract(th[p]["main"].response[1].body)[1] = "ok"
                       THEN "L184" ELSE "L198")
    /\ UNCHANGED <<now, fsv, cfg, ui, recording_process, stream, audio_data, stop_event,
                   delivered, exit, session, target, ghost>>

\* lines 184-185: f.write(transcript.rstrip())
transcribe_txt(p) ==
    /\ At(p, "main", "L184")
    /\ txt_file' = [txt_file EXCEPT ![th[p]["main"].file[1]] =
                       <<rstrip(extract(th[p]["main"].response[1].body)[2])>>]
    /\ Goto(p, "main", "L186")
    /\ UNCHANGED <<now, PID_FILE, AUDIO_FILE_TRACKER, wav, json_file, error_file,
                   clipboard, cfg, ui, recording_process, stream, audio_data,
                   stop_event, delivered, exit, session, target, ghost>>

\* line 186: pyperclip.copy(transcript)
transcribe_copy(p) ==
    /\ At(p, "main", "L186")
    /\ clipboard' = <<extract(th[p]["main"].response[1].body)[2]>>
    /\ Goto(p, "main", "L188")
    /\ UNCHANGED <<now, PID_FILE, AUDIO_FILE_TRACKER, wav, json_file, txt_file,
                   error_file, cfg, ui, recording_process, stream, audio_data,
                   stop_event, delivered, exit, session, target, ghost>>

\* line 188: the error file is unlinked (missing_ok=True); transcribe and
\* main return and the process ends with 0
transcribe_unlink(p) ==
    /\ At(p, "main", "L188")
    /\ error_file' = [error_file EXCEPT ![th[p]["main"].file[1]] = <<>>]
    /\ exit' = [exit EXCEPT ![p] = "exit0"]
    /\ UNCHANGED <<now, PID_FILE, AUDIO_FILE_TRACKER, wav, json_file, txt_file,
                   clipboard, cfg, ui, recording_process, stream, audio_data,
                   stop_event, delivered, th, session, target, ghost>>

\* lines 189-202 without the two sys.exit(1): the handlers print, transcribe
\* returns and main ends with 0
transcribe_except_return(p) ==
    /\ At(p, "main", "L190") \/ At(p, "main", "L198")
    /\ error_file' = IF th[p]["main"].pc = "L190"
                     THEN [error_file EXCEPT ![th[p]["main"].file[1]] =
                              <<Detail(th[p]["main"].response)>>]
                     ELSE error_file
    /\ exit' = [exit EXCEPT ![p] = "exit0"]
    /\ UNCHANGED <<now, PID_FILE, AUDIO_FILE_TRACKER, wav, json_file, txt_file,
                   clipboard, cfg, ui, recording_process, stream, audio_data,
                   stop_event, delivered, th, session, target, ghost>>

\* lines 189-196: a RequestException is written to the error file; lines
\* 197-202: KeyError or IndexError; either way the process ends with 1
transcribe_except(p) ==
    /\ At(p, "main", "L190") \/ At(p, "main", "L198")
    /\ error_file' = IF th[p]["main"].pc = "L190"
                     THEN [error_file EXCEPT ![th[p]["main"].file[1]] =
                              <<Detail(th[p]["main"].response)>>]
                     ELSE error_file
    /\ exit' = [exit EXCEPT ![p] = "exit1"]
    /\ UNCHANGED <<now, PID_FILE, AUDIO_FILE_TRACKER, wav, json_file, txt_file,
                   clipboard, cfg, ui, recording_process, stream, audio_data,
                   stop_event, delivered, th, session, target, ghost>>

(* ----------------------------- vox.py: signals ------------------------ *)
\* SIGINT: once line 207 has run, signal_handler starts on the main thread;
\* before that Python raises KeyboardInterrupt, which nothing catches
SIGINT(p) ==
    /\ kind[p] = "cli"
    /\ exit[p] = "running"
    /\ th[p]["sig"].pc = "off"
    /\ nsig[p] < MaxSignals
    /\ nsig' = [nsig EXCEPT ![p] = @ + 1]
    /\ IF HandlerInstalled(p)
       THEN Goto(p, "sig", "L77") /\ UNCHANGED exit
       ELSE exit' = [exit EXCEPT ![p] = "killed"] /\ UNCHANGED th
    /\ UNCHANGED <<now, fsv, cfg, ui, recording_process, stream, audio_data, stop_event,
                   delivered, session, target, manual, stopLen, nwrites, nreq>>

\* SIGTERM has no handler in vox.py: the process is terminated on the spot
SIGTERM(p) ==
    /\ kind[p] = "cli"
    /\ exit[p] = "running"
    /\ nsig[p] < MaxSignals
    /\ nsig' = [nsig EXCEPT ![p] = @ + 1]
    /\ exit' = [exit EXCEPT ![p] = "killed"]
    /\ UNCHANGED <<now, fsv, cfg, ui, recording_process, stream, audio_data, stop_event,
                   delivered, th, session, target, manual, stopLen, nwrites, nreq>>

\* lines 77-78: stop_event.set(), then cleanup()
signal_handler(p) ==
    /\ At(p, "sig", "L77")
    /\ RequestStop(p)
    /\ Call(p, "sig", "L66", "L79")
    /\ UNCHANGED <<now, fsv, cfg, ui, recording_process, stream, audio_data, delivered,
                   exit, session, target, nsig, manual, nwrites, nreq>>

\* line 79 left out: the handler returns and the interrupted code resumes
signal_handler_return(p) ==
    /\ At(p, "sig", "L79")
    /\ End(p, "sig", "off")
    /\ UNCHANGED <<now, fsv, cfg, ui, recording_process, stream, audio_data, stop_event,
                   delivered, exit, session, target, ghost>>

\* line 79: sys.exit(0)
signal_handler_exit(p) ==
    /\ At(p, "sig", "L79")
    /\ exit' = [exit EXCEPT ![p] = "exit0"]
    /\ UNCHANGED <<now, fsv, cfg, ui, recording_process, stream, audio_data, stop_event,
                   delivered, th, session, target, ghost>>

(* ===================== vox_gui.py: the graphical front end ============ *)
\* an exception nothing catches.  Raised in a slot on the main thread it
\* ends the process (PyQt5 5.5 and later abort on an unhandled exception in
\* a slot) or is printed and the slot is left for the event loop (earlier
\* PyQt5); raised in the signal handler it ends the process; raised in a
\* watcher thread it ends that thread
Raise(p, t) ==
    IF t = "main"
    THEN \/ exit' = [exit EXCEPT ![p] = "abort"] /\ UNCHANGED th
         \/ End(p, "main", "idle") /\ UNCHANGED exit
    ELSE IF t = "sig"
    THEN exit' = [exit EXCEPT ![p] = "abort"] /\ UNCHANGED th
    ELSE End(p, t, "off") /\ UNCHANGED exit

\* line 220: the driver delivers a block; the callback tests stop_event
Gui_callback(p) ==
    /\ kind[p] = "gui"
    /\ At(p, "cb", "idle")
    /\ delivered[p] < MaxBlocks
    /\ \E h \in Sessions :
         /\ stream[p][h] = "active"
         /\ delivered' = [delivered EXCEPT ![p] = @ + 1]
         /\ th' = [th EXCEPT ![p]["cb"] =
                     IF stop_event[p] THEN @
                     ELSE [@ EXCEPT !.pc = "G221", !.ses = h, !.dl = delivered[p] + 1]]
    /\ UNCHANGED <<now, fsv, cfg, ui, recording_process, stream, audio_data, stop_event,
                   exit, session, target, ghost>>

\* line 221: audio_data.append(indata.copy())
Gui_callback_append(p) ==
    /\ At(p, "cb", "G221")
    /\ audio_data' = [audio_data EXCEPT
                        ![p] = Append(@, Block(p, th[p]["cb"].ses, th[p]["cb"].dl))]
    /\ End(p, "cb", "idle")
    /\ UNCHANGED <<now, fsv, cfg, ui, recording_process, stream, stop_event, delivered,
                   exit, session, target, ghost>>

(* ------------------------ vox_gui.py: cleanup ------------------------- *)
\* line 226: if recording_process:
Gui_cleanup_test(p, t) ==
    /\ At(p, t, "G226")
    /\ Goto(p, t, IF recording_process[p] # None THEN "G227" ELSE "G230")
    /\ UNCHANGED <<now, fsv, cfg, ui, recording_process, stream, audio_data, stop_event,
                   delivered, exit, session, target, ghost>>

\* lines 227-229: recording_process.stop(), .close(), = None; the global is
\* read again by each statement, and another thread's cleanup may have set it
\* to None since line 226: AttributeError
Gui_cleanup_close(p, t) ==
    /\ At(p, t, "G227")
    /\ IF recording_process[p] = None
       THEN Raise(p, t) /\ UNCHANGED <<stream, recording_process>>
       ELSE LET h == recording_process[p] IN
              /\ stream[p][h] = "active" => th[p]["cb"].pc = "idle"
              /\ stream' = [stream EXCEPT ![p][h] = "closed"]
              /\ recording_process' = [recording_process EXCEPT ![p] = None]
              /\ Goto(p, t, "G230")
              /\ UNCHANGED exit
    /\ UNCHANGED <<now, fsv, cfg, ui, audio_data, stop_event, delivered, session,
                   target, ghost>>

\* line 230: stop_event.set()
Gui_cleanup_set(p, t) ==
    /\ At(p, t, "G230")
    /\ RequestStop(p)
    /\ Goto(p, t, "G231")
    /\ UNCHANGED <<now, fsv, cfg, ui, recording_process, stream, audio_data, delivered,
                   exit, session, target, nsig, manual, nwrites, nreq>>

\* lines 231-232: both markers are unlinked (missing_ok=True), cleanup returns
Gui_cleanup_unlink(p, t) ==
    /\ At(p, t, "G231")
    /\ PID_FILE' = <<>>
    /\ AUDIO_FILE_TRACKER' = <<>>
    /\ Goto(p, t, th[p][t].ret)
    /\ UNCHANGED <<now, wav, side, cfg, ui, recording_process, stream, audio_data,
                   stop_event, delivered, exit, session, target, ghost>>

Gui_cleanup(p, t) ==
    \/ Gui_cleanup_test(p, t)
    \/ Gui_cleanup_close(p, t)
    \/ Gui_cleanup_set(p, t)
    \/ Gui_cleanup_unlink(p, t)

(* --------------------- vox_gui.py: start_recording -------------------- *)
\* the Start button is clicked: Qt delivers the click when the event loop is
\* idle and the button (and the central widget) is enabled
Gui_start_click(p) ==
    /\ kind[p] = "gui"
    /\ At(p, "main", "idle")
    /\ ~ui[p].quitting
    /\ ui[p].start_button /\ ui[p].central
    /\ session[p] < MaxSessions
    /\ Goto(p, "main", "G236")
    /\ UNCHANGED <<now, fsv, cfg, ui, recording_process, stream, audio_data, stop_event,
                   delivered, exit, session, target, ghost>>

\* lines 236-245: without a key the slot returns; otherwise cleanup is called
Gui_start_recording(p) ==
    /\ At(p, "main", "G236")
    /\ IF api_key[p]
       THEN /\ Call(p, "main", "G226", "G246")
            /\ session' = [session EXCEPT ![p] = @ + 1]
       ELSE /\ End(p, "main", "idle")
            /\ UNCHANGED session
    /\ UNCHANGED <<now, fsv, cfg, ui, recording_process, stream, audio_data, stop_event,
                   delivered, exit, target, ghost>>

\* lines 246-249: the target path is named after the current second and
\* written to the path marker
Gui_start_recording_tracker(p) ==
    /\ At(p, "main", "G246")
    /\ target' = [target EXCEPT ![p] = <<now>>]
    /\ AUDIO_FILE_TRACKER' = <<now>>
    /\ Goto(p, "main", "G250")
    /\ UNCHANGED <<now, PID_FILE, wav, side, cfg, ui, recording_process, stream, audio_data,
                   stop_event, delivered, exit, session, ghost>>

\* lines 250-257: status line and controls of a running session
Gui_start_recording_controls(p) ==
    /\ At(p, "main", "G250")
    /\ ui' = [ui EXCEPT ![p].status = "Recording", ![p].start_button = FALSE,
                        ![p].stop_button = TRUE, ![p].inputs = FALSE,
                        ![p].copy_button = FALSE]
    /\ Goto(p, "main", "G258")
    /\ UNCHANGED <<now, fsv, cfg, recording_process, stream, audio_data, stop_event,
                   delivered, exit, session, target, ghost>>

\* line 258: audio_data.clear()
Gui_start_recording_clear(p) ==
    /\ At(p, "main", "G258")
    /\ audio_data' = [audio_data EXCEPT ![p] = <<>>]
    /\ Goto(p, "main", "G259")
    /\ UNCHANGED <<now, fsv, cfg, ui, recording_process, stream, stop_event, delivered,
                   exit, session, target, ghost>>

\* line 259: stop_event.clear()
Gui_start_recording_clear_event(p) ==
    /\ At(p, "main", "G259")
    /\ stop_event' = [stop_event EXCEPT ![p] = FALSE]
    /\ stopLen' = [stopLen EXCEPT ![p] = <<>>]
    /\ manual' = [manual EXCEPT ![p] = FALSE]
    /\ Goto(p, "main", "G260")
    /\ UNCHANGED <<now, fsv, cfg, ui, recording_process, stream, audio_data, delivered,
                   exit, session, target, nsig, nwrites, nreq>>

\* lines 260-262: recording_process = sd.InputStream(...); may raise
Gui_start_recording_open(p) ==
    /\ At(p, "main", "G260")
    /\ \/ /\ recording_process' = [recording_process EXCEPT ![p] = session[p]]
          /\ stream' = [stream EXCEPT ![p][session[p]] = "open"]
          /\ delivered' = [delivered EXCEPT ![p] = 0]
          /\ Goto(p, "main", "G263")
          /\ UNCHANGED exit
       \/ /\ Raise(p, "main")
          /\ UNCHANGED <<recording_process, stream, delivered>>
    /\ UNCHANGED <<now, fsv, cfg, ui, audio_data, stop_event, session, target, ghost>>

\* line 263: recording_process.start(); the handler may have set the global
\* to None since line 260
Gui_start_recording_start(p) ==
    /\ At(p, "main", "G263")
    /\ \/ /\ recording_process[p] # None
          /\ stream' = [stream EXCEPT ![p][recording_process[p]] = "active"]
          /\ Goto(p, "main", "G264")
          /\ UNCHANGED exit
       \/ /\ Raise(p, "main")
          /\ UNCHANGED stream
    /\ UNCHANGED <<now, fsv, cfg, ui, recording_process, audio_data, stop_event,
                   delivered, session, target, ghost>>

\* lines 264-265: the pid marker
Gui_start_recording_pid(p) ==
    /\ At(p, "main", "G264")
    /\ PID_FILE' = <<p>>
    /\ Goto(p, "main", "G266")
    /\ UNCHANGED <<now, AUDIO_FILE_TRACKER, wav, side, cfg, ui, recording_process, stream,
                   audio_data, stop_event, delivered, exit, session, target, ghost>>

\* lines 266-275: start the display timer and the watcher thread of this
\* session, which enters stop_event.wait(timeout=self.max_duration); the slot
\* returns to the event loop
Gui_start_recording_thread(p) ==
    /\ At(p, "main", "G266")
    /\ th' = [th EXCEPT ![p]["main"] = [T0 EXCEPT !.pc = "idle"],
                        ![p][WName[session[p]]] =
                            [T0 EXCEPT !.pc = "G270", !.ses = session[p],
                                       !.dl = now + max_duration[p]]]
    /\ UNCHANGED <<now, fsv, cfg, ui, recording_process, stream, audio_data, stop_event,
                   delivered, exit, session, target, ghost>>

\* line 270: the wait returns when the event is set or the timeout has elapsed
recording_thread_wait(p, w) ==
    /\ At(p, w, "G270")
    /\ stop_event[p] \/ now >= th[p][w].dl
    /\ Goto(p, w, "G271")
    /\ UNCHANGED <<now, fsv, cfg, ui, recording_process, stream, audio_data, stop_event,
                   delivered, exit, session, target, ghost>>

\* lines 271-273: if the event is not set, set it and call stop_recording;
\* otherwise the thread ends
recording_thread_timeout(p, w) ==
    /\ At(p, w, "G271")
    /\ IF stop_event[p]
       THEN End(p, w, "off") /\ UNCHANGED <<stop_event, stopLen>>
       ELSE RequestStop(p) /\ Goto(p, w, "G280")
    /\ UNCHANGED <<now, fsv, cfg, ui, recording_process, stream, audio_data, delivered,
                   exit, session, target, nsig, manual, nwrites, nreq>>

(* ---------------------- vox_gui.py: stop_recording -------------------- *)
\* the Stop button is clicked
Gui_stop_click(p) ==
    /\ kind[p] = "gui"
    /\ At(p, "main", "idle")
    /\ ~ui[p].quitting
    /\ ui[p].stop_button /\ ui[p].central
    /\ manual' = [manual EXCEPT ![p] = TRUE]
    /\ Goto(p, "main", "G280")
    /\ UNCHANGED <<now, fsv, cfg, ui, recording_process, stream, audio_data, stop_event,
                   delivered, exit, session, target, nsig, stopLen, nwrites, nreq>>

\* lines 280-282: status line, timer.stop(), and the left operand of line
\* 282: PID_FILE.exists(); otherwise line 310
Gui_stop_recording(p, t) ==
    /\ At(p, t, "G280")
    /\ ui' = [ui EXCEPT ![p].status = "Stopping recording..."]
    /\ th' = [th EXCEPT ![p][t].pc = IF PID_FILE # <<>> THEN "G282b" ELSE "G310",
                        ![p][t].fin = session[p]]
    /\ UNCHANGED <<now, fsv, cfg, recording_process, stream, audio_data, stop_event,
                   delivered, exit, session, target, ghost>>

\* line 282, right operand: recording_process; otherwise line 310
Gui_stop_recording_check(p, t) ==
    /\ At(p, t, "G282b")
    /\ Goto(p, t, IF recording_process[p] # None THEN "G283" ELSE "G310")
    /\ UNCHANGED <<now, fsv, cfg, ui, recording_process, stream, audio_data, stop_event,
                   delivered, exit, session, target, ghost>>

\* line 283: stop_event.set()
Gui_stop_recording_set(p, t) ==
    /\ At(p, t, "G283")
    /\ RequestStop(p)
    /\ Goto(p, t, "G284")
    /\ UNCHANGED <<now, fsv, cfg, ui, recording_process, stream, audio_data, delivered,
                   exit, session, target, nsig, manual, nwrites, nreq>>

\* line 284: audio_file = AUDIO_FILE_TRACKER.read_text().strip(); a missing
\* marker raises FileNotFoundError
Gui_stop_recording_read(p, t) ==
    /\ At(p, t, "G284")
    /\ IF AUDIO_FILE_TRACKER # <<>>
       THEN /\ th' = [th EXCEPT ![p][t].pc = "G285", ![p][t].file = AUDIO_FILE_TRACKER]
            /\ UNCHANGED exit
       ELSE Raise(p, t)
    /\ UNCHANGED <<now, fsv, cfg, ui, recording_process, stream, audio_data, stop_event,
                   delivered, session, target, ghost>>

\* line 285: if audio_data; otherwise line 300
Gui_stop_recording_test(p, t) ==
    /\ At(p, t, "G285")
    /\ Goto(p, t, IF audio_data[p] # <<>> THEN "G286" ELSE "G300")
    /\ UNCHANGED <<now, fsv, cfg, ui, recording_process, stream, audio_data, stop_event,
                   delivered, exit, session, target, ghost>>

\* lines 286-287: write the waveform, then call cleanup; np.concatenate
\* raises ValueError on a list emptied since line 285
Gui_stop_recording_write(p, t) ==
    /\ At(p, t, "G286")
    /\ IF audio_data[p] # <<>>
       THEN /\ wav' = [wav EXCEPT ![th[p][t].file[1]] = <<WaveFile(audio_data[p])>>]
            /\ nwrites' = [nwrites EXCEPT ![p][th[p][t].fin] = Min(@ + 1, 2)]
            /\ Call(p, t, "G226", "G288")
            /\ UNCHANGED exit
       ELSE /\ Raise(p, t)
            /\ UNCHANGED <<wav, nwrites>>
    /\ UNCHANGED <<now, PID_FILE, AUDIO_FILE_TRACKER, side, cfg, ui, recording_process,
                   stream, audio_data, stop_event, delivered, session, target, nsig,
                   manual, stopLen, nreq>>

\* lines 288-290, 322-325: status line, the central widget is disabled,
\* transcribe is called: the audio file must exist
Gui_transcribe_exists(p, t) ==
    /\ At(p, t, "G288")
    /\ IF wav[th[p][t].file[1]] # <<>>
       THEN /\ ui' = [ui EXCEPT ![p].status = "Transcribing...", ![p].central = FALSE]
            /\ Goto(p, t, "G331")
       ELSE /\ ui' = [ui EXCEPT ![p].status = "Error: Audio file missing or not set",
                                ![p].central = FALSE, ![p].transcript = <<>>]
            /\ Goto(p, t, "G291")
    /\ UNCHANGED <<now, fsv, cfg, recording_process, stream, audio_data, stop_event,
                   delivered, exit, session, target, ghost>>

\* lines 300-301: empty buffer: status line, cleanup
Gui_stop_recording_empty(p, t) ==
    /\ At(p, t, "G300")
    /\ ui' = [ui EXCEPT ![p].status = "No audio data recorded."]
    /\ Call(p, t, "G226", "G302")
    /\ UNCHANGED <<now, fsv, cfg, recording_process, stream, audio_data, stop_event,
                   delivered, exit, session, target, ghost>>

\* lines 310-311: status line, cleanup
Gui_stop_recording_none(p, t) ==
    /\ At(p, t, "G310")
    /\ ui' = [ui EXCEPT ![p].status = "No recording to stop."]
    /\ Call(p, t, "G226", "G312")
    /\ UNCHANGED <<now, fsv, cfg, recording_process, stream, audio_data, stop_event,
                   delivered, exit, session, target, ghost>>

\* lines 291-298, 302-308, 312-318: the controls return to the ready state
\* and stop_recording returns: a slot to the event loop, a watcher ends
Gui_stop_recording_ready(p, t) ==
    /\ \/ At(p, t, "G291")
       \/ At(p, t, "G302")
       \/ At(p, t, "G312")
    /\ ui' = [ui EXCEPT ![p].central = IF th[p][t].pc = "G291" THEN TRUE ELSE @,
                        ![p].start_button = TRUE, ![p].stop_button = FALSE,
                        ![p].copy_button = th[p][t].pc = "G291" /\ ui[p].transcript # <<>>,
                        ![p].inputs = TRUE]
    /\ End(p, t, IF t = "main" THEN "idle" ELSE "off")
    /\ UNCHANGED <<now, fsv, cfg, recording_process, stream, audio_data, stop_event,
                   delivered, exit, session, target, ghost>>

(* ------------------------ vox_gui.py: transcribe ---------------------- *)
\* lines 330-338: one request; it raises a connection error or returns a
\* response
Gui_transcribe_post(p, t) ==
    /\ At(p, t, "G331")
    /\ nreq' = [nreq EXCEPT ![p][th[p][t].fin] = Min(@ + 1, 2)]
    /\ \/ th' = [th EXCEPT ![p][t].pc = "G359", ![p][t].response = <<>>]
       \/ \E r \in Responses :
            th' = [th EXCEPT ![p][t].pc = "G339", ![p][t].response = <<r>>]
    /\ UNCHANGED <<now, fsv, cfg, ui, recording_process, stream, audio_data, stop_event,
                   delivered, exit, session, target, nsig, manual, stopLen, nwrites>>

\* line 339: response.raise_for_status()
Gui_transcribe_status(p, t) ==
    /\ At(p, t, "G339")
    /\ Goto(p, t, IF raise_for_status(th[p][t].response[1]) THEN "G359" ELSE "G340")
    /\ UNCHANGED <<now, fsv, cfg, ui, recording_process, stream, audio_data, stop_event,
                   delivered, exit, session, target, ghost>>

\* lines 340-341: open(json_file, "w") and json.dump(response.json(), f); a
\* body that is no JSON leaves the file empty and raises JSONDecodeError, a
\* RequestException or, in requests before 2.27, a ValueError nothing catches
Gui_transcribe_json(p, t) ==
    /\ At(p, t, "G340")
    /\ LET r == th[p][t].response[1]
           f == th[p][t].file[1]
       IN IF r.json
          THEN /\ json_file' = [json_file EXCEPT ![f] = <<r.body>>]
               /\ Goto(p, t, "G349")
               /\ UNCHANGED exit
          ELSE /\ json_file' = [json_file EXCEPT ![f] = <<EmptyFile>>]
               /\ \/ Goto(p, t, "G359") /\ UNCHANGED exit
                  \/ Raise(p, t)
    /\ UNCHANGED <<now, PID_FILE, AUDIO_FILE_TRACKER, wav, txt_file, error_file,
                   clipboard, cfg, ui, recording_process, stream, audio_data,
                   stop_event, delivered, session, target, ghost>>

\* lines 349-351: self.transcript is taken out of the body, or KeyError or
\* IndexError is raised
Gui_transcribe_extract(p, t) ==
    /\ At(p, t, "G349")
    /\ LET e == extract(th[p][t].response[1].body)
       IN IF e[1] = "ok"
          THEN /\ ui' = [ui EXCEPT ![p].transcript = e[2]]
               /\ Goto(p, t, "G352")
          ELSE /\ Goto(p, t, "G364")
               /\ UNCHANGED ui
    /\ UNCHANGED <<now, fsv, cfg, recording_process, stream, audio_data, stop_event,
                   delivered, exit, session, target, ghost>>

\* lines 352-353: f.write(self.transcript.rstrip())
Gui_transcribe_txt(p, t) ==
    /\ At(p, t, "G352")
    /\ txt_file' = [txt_file EXCEPT ![th[p][t].file[1]] = <<rstrip(ui[p].transcript)>>]
    /\ Goto(p, t, "G354")
    /\ UNCHANGED <<now, PID_FILE, AUDIO_FILE_TRACKER, wav, json_file, error_file,
                   clipboard, cfg, ui, recording_process, stream, audio_data,
                   stop_event, delivered, exit, session, target, ghost>>

\* lines 354-357: status line; the error file is unlinked (missing_ok=True);
\* transcribe returns to line 291
Gui_transcribe_unlink(p, t) ==
    /\ At(p, t, "G354")
    /\ ui' = [ui EXCEPT ![p].status = "Transcript saved. Click Copy to copy."]
    /\ error_file' = [error_file EXCEPT ![th[p][t].file[1]] = <<>>]
    /\ Goto(p, t, "G291")
    /\ UNCHANGED <<now, PID_FILE, AUDIO_FILE_TRACKER, wav, json_file, txt_file,
                   clipboard, cfg, recording_process, stream, audio_data,
                   stop_event, delivered, exit, session, target, ghost>>

\* lines 358-360: a RequestException is written to the error file
Gui_transcribe_error(p, t) ==
    /\ At(p, t, "G359")
    /\ error_file' = [error_file EXCEPT ![th[p][t].file[1]] =
                         <<Detail(th[p][t].response)>>]
    /\ Goto(p, t, "G361")
    /\ UNCHANGED <<now, PID_FILE, AUDIO_FILE_TRACKER, wav, json_file, txt_file,
                   clipboard, cfg, ui, recording_process, stream, audio_data,
                   stop_event, delivered, exit, session, target, ghost>>

\* lines 361-362 after a RequestException, lines 363-367 after a KeyError or
\* an IndexError: status line, self.transcript = "", and transcribe returns
\* to line 291
Gui_transcribe_except(p, t) ==
    /\ At(p, t, "G361") \/ At(p, t, "G364")
    /\ ui' = [ui EXCEPT ![p].status = IF th[p][t].pc = "G361"
                                      THEN "Error: Transcription failed."
                                      ELSE "Error: Failed to extract transcript.",
                        ![p].transcript = <<>>]
    /\ Goto(p, t, "G291")
    /\ UNCHANGED <<now, PID_FILE, AUDIO_FILE_TRACKER, wav, side, cfg,
                   recording_process, stream, audio_data, stop_event, delivered,
                   exit, session, target, ghost>>

\* lines 208-214: the Copy button is clicked
copy_transcript(p) ==
    /\ kind[p] = "gui"
    /\ At(p, "main", "idle")
    /\ ~ui[p].quitting
    /\ ui[p].copy_button /\ ui[p].central
    /\ IF ui[p].transcript # <<>>
       THEN /\ clipboard' = <<ui[p].transcript>>
            /\ ui' = [ui EXCEPT ![p].status = "Transcript copied to clipboard"]
       ELSE /\ ui' = [ui EXCEPT ![p].status = "No transcript available to copy"]
            /\ UNCHANGED clipboard
    /\ clipboard' # clipboard \/ ui' # ui
    /\ UNCHANGED <<now, PID_FILE, AUDIO_FILE_TRACKER, wav, json_file, txt_file,
                   error_file, cfg, recording_process, stream, audio_data, stop_event,
                   delivered, th, exit, session, target, ghost>>

(* ------------------- vox_gui.py: signals and quitting ----------------- *)
\* SIGINT or SIGTERM (lines 59-60): signal_handler starts on the main thread
Gui_signal(p) ==
    /\ kind[p] = "gui"
    /\ exit[p] = "running"
    /\ th[p]["sig"].pc = "off"
    /\ nsig[p] < MaxSignals
    /\ nsig' = [nsig EXCEPT ![p] = @ + 1]
    /\ Goto(p, "sig", "G171")
    /\ UNCHANGED <<now, fsv, cfg, ui, recording_process, stream, audio_data, stop_event,
                   delivered, exit, session, target, manual, stopLen, nwrites, nreq>>

\* lines 171-172: status line, cleanup
Gui_signal_handler(p) ==
    /\ At(p, "sig", "G171")
    /\ ui' = [ui EXCEPT ![p].status = "Shutting down..."]
    /\ Call(p, "sig", "G226", "G173")
    /\ UNCHANGED <<now, fsv, cfg, recording_process, stream, audio_data, stop_event,
                   delivered, exit, session, target, ghost>>

\* lines 173, 177: quit_application calls cleanup again
Gui_signal_handler_quit(p) ==
    /\ At(p, "sig", "G173")
    /\ Call(p, "sig", "G226", "G178")
    /\ UNCHANGED <<now, fsv, cfg, ui, recording_process, stream, audio_data, stop_event,
                   delivered, exit, session, target, ghost>>

\* the tray menu's Quit is chosen: quit_application runs as a slot (line 177)
Gui_quit_click(p) ==
    /\ kind[p] = "gui"
    /\ At(p, "main", "idle")
    /\ ~ui[p].quitting
    /\ Call(p, "main", "G226", "G178")
    /\ UNCHANGED <<now, fsv, cfg, ui, recording_process, stream, audio_data, stop_event,
                   delivered, exit, session, target, ghost>>

\* lines 178-179: app.quit() makes the event loop return once the running
\* slot has returned
Gui_quit_application(p, t) ==
    /\ At(p, t, "G178")
    /\ ui' = [ui EXCEPT ![p].quitting = TRUE]
    /\ End(p, t, IF t = "main" THEN "idle" ELSE "off")
    /\ UNCHANGED <<now, fsv, cfg, recording_process, stream, audio_data, stop_event,
                   delivered, exit, session, target, ghost>>

\* lines 386: app.exec_() returns 0 and main calls sys.exit with it
Gui_main_exit(p) ==
    /\ kind[p] = "gui"
    /\ At(p, "main", "idle")
    /\ ui[p].quitting
    /\ exit' = [exit EXCEPT ![p] = "exit0"]
    /\ UNCHANGED <<now, fsv, cfg, ui, recording_process, stream, audio_data, stop_event,
                   delivered, th, session, target, ghost>>

NextGUI(p) ==
    \/ Gui_callback(p)
    \/ Gui_callback_append(p)
    \/ \E t \in {"main"} \cup Watchers : Gui_cleanup(p, t)
    \/ Gui_start_click(p)
    \/ Gui_start_recording(p)
    \/ Gui_start_recording_tracker(p)
    \/ Gui_start_recording_controls(p)
    \/ Gui_start_recording_clear(p)
    \/ Gui_start_recording_clear_event(p)
    \/ Gui_start_recording_open(p)
    \/ Gui_start_recording_start(p)
    \/ Gui_start_recording_pid(p)
    \/ Gui_start_recording_thread(p)
    \/ \E w \in Watchers : recording_thread_wait(p, w)
    \/ \E w \in Watchers : recording_thread_timeout(p, w)
    \/ Gui_stop_click(p)
    \/ \E t \in {"main"} \cup Watchers :
          \/ Gui_stop_recording(p, t)
          \/ Gui_stop_recording_check(p, t)
          \/ Gui_stop_recording_set(p, t)
          \/ Gui_stop_recording_read(p, t)
          \/ Gui_stop_recording_test(p, t)
          \/ Gui_stop_recording_write(p, t)
          \/ Gui_stop_recording_empty(p, t)
          \/ Gui_stop_recording_none(p, t)
          \/ Gui_stop_recording_ready(p, t)
          \/ Gui_transcribe_exists(p, t)
          \/ Gui_transcribe_post(p, t)
          \/ Gui_transcribe_status(p, t)
          \/ Gui_transcribe_json(p, t)
          \/ Gui_transcribe_extract(p, t)
          \/ Gui_transcribe_txt(p, t)
          \/ Gui_transcribe_unlink(p, t)
          \/ Gui_transcribe_error(p, t)
          \/ Gui_transcribe_except(p, t)
    \/ Gui_quit_click(p)
    \/ Gui_quit_application(p, "main")
    \/ Gui_main_exit(p)

\* the signal handler of the window
SigGUI(p) ==
    \/ Gui_signal(p)
    \/ Gui_signal_handler(p)
    \/ Gui_cleanup(p, "sig")
    \/ Gui_signal_handler_quit(p)
    \/ Gui_quit_application(p, "sig")

(* --------------------------- specifications --------------------------- *)
\* the terminal front end up to the return of stop_recording
RecordCLI(p) ==
    \/ check_environment(p)
    \/ main_signal(p)
    \/ cleanup(p, "main")
    \/ start_recording_tracker(p)
    \/ start_recording_clear(p)
    \/ start_recording_open(p)
    \/ start_recording_start(p)
    \/ start_recording_pid(p)
    \/ start_recording_threads(p)
    \/ monitor_input(p)
    \/ start_recording_wait(p)
    \/ start_recording_timeout(p)
    \/ stop_recording_check(p)
    \/ stop_recording_set(p)
    \/ stop_recording_read(p)
    \/ stop_recording_test(p)
    \/ stop_recording_write(p)
    \/ stop_recording_return(p)
    \/ stop_recording_exit(p)
    \/ callback(p)
    \/ callback_append(p)

\* the terminal front end, transcription included
NextCLI(p) ==
    \/ RecordCLI(p)
    \/ transcribe_exists(p)
    \/ transcribe_post(p)
    \/ transcribe_status(p)
    \/ transcribe_json(p)
    \/ transcribe_extract(p)
    \/ transcribe_txt(p)
    \/ transcribe_copy(p)
    \/ transcribe_unlink(p)
    \/ transcribe_except(p)

\* signals sent to the terminal front end
SigCLI(p) ==
    \/ SIGINT(p)
    \/ SIGTERM(p)
    \/ signal_handler(p)
    \/ cleanup(p, "sig")
    \/ signal_handler_exit(p)

\* the user starts one session in the window
OneSession(p) == NextGUI(p) /\ session'[p] <= 1

\* the endpoint either transcribes or cannot be reached
Plain == \A p \in Procs : \A t \in Threads :
             th'[p][t].response # <<>> => th'[p][t].response[1] \in PlainResponses

\* Spec: one process of either front end, one session, no signal
Next ==
    \/ Tick
    \/ \E p \in Procs : NextCLI(p) /\ Plain
    \/ \E p \in Procs : OneSession(p) /\ Plain

Spec == Init /\ [][Next]_vars

\* SpecSig: Spec with the credential set and no marker left over, and
\* signals may arrive
InitSig ==
    /\ Init
    /\ api_key[1]
    /\ stale = [pid |-> FALSE, tracker |-> FALSE]

NextSig ==
    \/ Next
    \/ \E p \in Procs : SigCLI(p)
    \/ \E p \in Procs : SigGUI(p)

SpecSig == InitSig /\ [][NextSig]_vars

\* SpecCLI: the terminal front end alone, with signals
InitCLI == Init /\ kind[1] = "cli"

NextCLIOnly ==
    \/ Tick
    \/ \E p \in Procs : NextCLI(p)
    \/ \E p \in Procs : SigCLI(p)

SpecCLI == InitCLI /\ [][NextCLIOnly]_vars

\* SpecGUI: the window alone, up to MaxSessions sessions of at most one
\* block, no signal
InitGUI ==
    /\ Init
    /\ kind[1] = "gui"
    /\ api_key[1]
    /\ stale = [pid |-> FALSE, tracker |-> FALSE]

NextGUIOnly ==
    \/ Tick
    \/ \E p \in Procs : NextGUI(p) /\ Plain /\ delivered'[p] <= 1

SpecGUI == InitGUI /\ [][NextGUIOnly]_vars

\* SpecTwo: two processes of the terminal front end share the home
\* directory, up to the return of stop_recording; no marker is left over,
\* no signal
InitTwo ==
    /\ Boot([p \in Procs |-> "cli"])
    /\ \A p \in Procs : api_key[p]
    /\ stale = [pid |-> FALSE, tracker |-> FALSE]
    /\ PID_FILE = <<>>
    /\ AUDIO_FILE_TRACKER = <<>>
    /\ txt_file = [f \in Paths |-> <<>>]
    /\ error_file = [f \in Paths |-> <<>>]

NextTwo ==
    \/ Tick
    \/ \E p \in Procs : RecordCLI(p)

SpecTwo == InitTwo /\ [][NextTwo]_vars

\* the recording is removed from the disk (by the user, by a cleaner) while
\* a finalizer is about to hand it to transcribe
remove_audio(p) ==
    /\ exit[p] = "running"
    /\ \E t \in {"main"} \cup Watchers :
          /\ th[p][t].pc \in {"L155", "G288"}
          /\ wav[th[p][t].file[1]] # <<>>
          /\ wav' = [wav EXCEPT ![th[p][t].file[1]] = <<>>]
    /\ UNCHANGED <<now, PID_FILE, AUDIO_FILE_TRACKER, side, cfg, ui, recording_process,
                   stream, audio_data, stop_event, delivered, th, exit, session,
                   target, ghost>>

\* SpecTr: one process of either front end with its credential, one session
\* of at most one block, any answer of the endpoint; sidecar files of an
\* earlier recording of the same second may exist
InitTr ==
    /\ \E k \in {"cli", "gui"} : Boot([p \in Procs |-> IF p = 1 THEN k ELSE "off"])
    /\ api_key[1]
    /\ stale = [pid |-> FALSE, tracker |-> FALSE]
    /\ PID_FILE = <<>>
    /\ AUDIO_FILE_TRACKER = <<>>
    /\ \E old \in BOOLEAN :
          /\ txt_file = [f \in Paths |-> IF old THEN <<<<"o", "l", "d">>>> ELSE <<>>]
          /\ error_file = [f \in Paths |-> IF old THEN <<"Connection refused">> ELSE <<>>]

NextTr ==
    \/ Tick
    \/ \E p \in Procs : NextCLI(p) /\ delivered'[p] <= 1
    \/ \E p \in Procs : OneSession(p) /\ delivered'[p] <= 1
    \/ \E p \in Procs : copy_transcript(p)
    \/ \E p \in Procs : remove_audio(p)

SpecTr == InitTr /\ [][NextTr]_vars

\* SpecExit: SpecCLI where the recording may be removed before transcribe
\* looks for it
NextExit ==
    \/ NextCLIOnly
    \/ \E p \in Procs : remove_audio(p)

SpecExit == InitCLI /\ [][NextExit]_vars

\* SpecLive: Spec with the credential set and no marker left over, every
\* session started early enough for its timeout to fall within MaxTime, and
\* fair scheduling: a second that can pass does pass, and a process with a
\* statement to run (other than waiting for the user or for the audio
\* driver) runs one; the request of transcribe is such a statement, that
\* is, it returns or raises
InitLive == InitSig

\* steps of the environment: the driver delivers a block, the user presses
\* Enter or clicks a button
Env(p) ==
    \/ callback(p)
    \/ monitor_input(p)
    \/ Gui_callback(p)
    \/ Gui_start_click(p)
    \/ Gui_stop_click(p)
    \/ Gui_quit_click(p)

StartsInTime ==
    \A p \in Procs : session'[p] # session[p] => now + max_duration[p] <= MaxTime

NextLive ==
    \/ Tick
    \/ \E p \in Procs : NextCLI(p) /\ Plain /\ StartsInTime
    \/ \E p \in Procs : OneSession(p) /\ Plain /\ StartsInTime

\* a statement of process p, of any of its threads
Prog(p) == (NextCLI(p) \/ OneSession(p)) /\ Plain /\ StartsInTime /\ ~Env(p)

Fairness == WF_vars(Tick) /\ \A p \in Procs : WF_vars(Prog(p))

SpecLive == InitLive /\ [][NextLive]_vars /\ Fairness

(* ============================== properties ============================== *)

\* the lines of transcribe in vox.py at which the main thread may stand
TranscribePcs == {"L155", "L157", "L164", "L172", "L173", "L181", "L184", "L186",
                  "L188", "L190", "L198"}

\* the session controller of process p has returned, or p has exited through
\* one of its listed exits (status 0 or 1), after a session was started
ControllerReturned(p) ==
    /\ session[p] >= 1
    /\ \/ exit[p] \in {"exit0", "exit1"}
       \/ kind[p] = "cli" /\ Runs(p, "main") /\ th[p]["main"].pc \in TranscribePcs
       \/ /\ kind[p] = "gui" /\ exit[p] = "running"
          /\ th[p]["main"].pc = "idle" /\ th[p]["sig"].pc = "off"
          /\ \A w \in Watchers : th[p][w].pc = "off"

\* the blocks 1..n the device delivered in session h of process p
Blocks(p, h, n) == [i \in 1..n |-> Block(p, h, i)]

\* C1: whenever no session is active (the session controller has returned or
\* the process has exited through a listed exit), neither the pid marker nor
\* the path marker exists.
C1_MarkersAbsent ==
    \A p \in Procs :
        ControllerReturned(p) => PID_FILE = <<>> /\ AUDIO_FILE_TRACKER = <<>>

\* C2: a session is finalized at most once: its waveform is written at most
\* once and at most one transcription request is made for it, whichever of
\* the timeout and the manual stop is observed first.
C2_OneFinalization ==
    \A p \in Procs : \A h \in Sessions : nwrites[p][h] <= 1 /\ nreq[p][h] <= 1

\* C3: once the stop flag of a process is set, no step appends a block to its
\* buffer: the length of the buffer does not grow while the flag is set.
C3_NoAppendAfterStop ==
    [][\A p \in Procs :
          stop_event[p] => Len(audio_data'[p]) <= Len(audio_data[p])]_vars

C5_EmptyBufferPolicy ==
    \A p \in Procs :
        (kind[p] # "off" /\ session[p] >= 1 /\ stopLen[p] = <<0>>) =>
            /\ nwrites[p][session[p]] = 0
            /\ nreq[p][session[p]] = 0
            /\ exit[p] # "exit0"
            /\ th[p]["main"].pc \notin {"L139", "L142"} \cup TranscribePcs

\* C6: without a manual stop and without a signal, no thread calls
\* stop_recording before max_duration seconds have passed since its wait for
\* the stop condition began.
C6_TimeoutBoundary ==
    \A p \in Procs : \A t \in {"main"} \cup Watchers :
        (Runs(p, t) /\ th[p][t].pc \in {"L135", "G280"}
           /\ ~manual[p] /\ nsig[p] = 0) => now >= th[p][t].dl

\* C7: a process of the terminal front end that has received SIGINT or SIGTERM
\* after its start-up and has ended, has ended with status 0, with both
\* markers absent and with its input stream stopped and closed.
C7_InterruptCleanup ==
    \A p \in Procs :
        (kind[p] = "cli" /\ session[p] >= 1 /\ nsig[p] > 0
           /\ exit[p] # "running") =>
            /\ exit[p] = "exit0"
            /\ PID_FILE = <<>> /\ AUDIO_FILE_TRACKER = <<>>
            /\ \A h \in Sessions : stream[p][h] \in {"none", "closed"}

Capturing(p) ==
    \/ /\ kind[p] = "cli" /\ Runs(p, "main")
       /\ th[p]["main"].pc \in {"L116", "L125", "L126", "L135", "L136", "L137",
                                "L138", "L139"}
    \/ /\ kind[p] = "gui" /\ exit[p] = "running"
       /\ th[p]["main"].pc = "idle" /\ th[p]["sig"].pc = "off"
       /\ ui[p].stop_button /\ ~ui[p].quitting /\ session[p] >= 1
       /\ th[p][WName[session[p]]].pc \in {"G270", "G271", "G280", "G282b", "G283",
                                           "G284", "G285", "G286"}

\* the cleanup that opens start_recording is still running
InStartCleanup(p) ==
    /\ th[p]["main"].ret \in {"L100", "G246"}
    /\ th[p]["main"].pc \in {"L66", "L67", "L70", "G226", "G227", "G230", "G231"}

\* C9: whatever markers a crashed prior run left, once the cleanup that opens
\* start_recording has run no marker holds foreign content; while the session
\* captures, the pid marker holds the process id and the path marker the
\* session's target path; the path a finalizer reads is that target, nothing
\* is written at the stale path, and the terminal front end ends neither with
\* "No recording to stop" nor with a failed read of the path marker, but with
\* its waveform written or with the empty-recording failure.
C9_StaleMarkerRecovery ==
    \A p \in Procs :
        (kind[p] # "off" /\ session[p] >= 1 /\ ~InStartCleanup(p)) =>
            /\ PID_FILE \in {<<>>, <<p>>}
            /\ AUDIO_FILE_TRACKER \in {<<>>, target[p]}
            /\ Capturing(p) => PID_FILE = <<p>> /\ AUDIO_FILE_TRACKER = target[p]
            /\ \A t \in Threads : th[p][t].file # <<>> => th[p][t].file = target[p]
            /\ wav[0] = <<>>
            /\ th[p]["main"].pc # "L150" /\ th[p]["main"].ret # "L150"
            /\ ~(exit[p] = "traceback" /\ th[p]["main"].pc = "L137")
            /\ (kind[p] = "cli" /\ exit[p] \in {"exit0", "exit1"}) =>
                   \/ nwrites[p][1] = 1 /\ wav[target[p][1]] # <<>>
                   \/ nwrites[p][1] = 0 /\ exit[p] = "exit1"
            /\ (kind[p] = "gui" /\ ControllerReturned(p) /\ ~ui[p].quitting
                  /\ stopLen[p] # <<>> /\ stopLen[p] # <<0>>) =>
                   nwrites[p][1] >= 1 /\ wav[target[p][1]] # <<>>

\* C9, witness: both markers were left over at launch, and the session has
\* been finalized with its waveform written at its own target path
C9_Witness ==
    \E p \in Procs :
        /\ stale.pid /\ stale.tracker
        /\ ControllerReturned(p)
        /\ nwrites[p][1] = 1 /\ wav[target[p][1]] # <<>>
        /\ PID_FILE = <<>> /\ AUDIO_FILE_TRACKER = <<>>

\* C10: of two processes sharing the markers, each finalizer reads the path
\* allocated at its own start, none ends with "No recording to stop", none
\* fails to read the path marker, and the waveform at a session's target
\* holds blocks of that session only.
C10_SessionsIsolated ==
    \A p \in Procs :
        kind[p] = "cli" =>
            /\ th[p]["main"].file # <<>> => th[p]["main"].file = target[p]
            /\ th[p]["main"].pc # "L150" /\ th[p]["main"].ret # "L150"
            /\ ~(exit[p] = "traceback" /\ th[p]["main"].pc = "L137")
            /\ (target[p] # <<>> /\ wav[target[p][1]] # <<>>) =>
                   \A i \in DOMAIN wav[target[p][1]][1].data :
                       wav[target[p][1]][1].data[i][1] = p

(* ----------------------- properties of transcribe --------------------- *)
\* the threads that may run stop_recording and transcribe
Finalizers == {"main"} \cup Watchers

\* the bodies that hold a transcript at results.channels[0].alternatives[0]
WithTranscript ==
    {Body(<<[transcript |-> t, confidence |-> "c"]>>) : t \in Transcripts}

\* the transcript such a body holds
TranscriptOf(body) == body.results.channels[1].alternatives[1].transcript

\* the step in which the transcribe call of thread t ends: the terminal
\* front end exits from inside transcribe, the window comes back to line 291
Ends(p, t) ==
    \/ kind[p] = "cli" /\ t = "main" /\ th[p]["main"].pc \in TranscribePcs
         /\ exit[p] = "running" /\ exit'[p] # "running"
         /\ th[p]["sig"].pc = "off"
    \/ kind[p] = "gui" /\ th[p][t].pc # "G291" /\ th'[p][t].pc = "G291"

\* the endpoint answered the call of thread t with a 2xx status and a JSON
\* body
Answered2xx(p, t) ==
    /\ th[p][t].response # <<>>
    /\ th[p][t].response[1].status \in 200..299
    /\ th[p][t].response[1].json

\* what C11 promises at the end of a call answered with body
Success(p, t, body) ==
    LET f == th[p][t].file[1]
    IN /\ json_file[f] = <<body>>
       /\ txt_file[f] = <<rstrip(TranscriptOf(body))>>
       /\ error_file[f] = <<>>
       /\ kind[p] = "cli" =>
              exit[p] = "exit0" /\ clipboard = <<TranscriptOf(body)>>
       /\ kind[p] = "gui" => ui[p].transcript = TranscriptOf(body)

\* C11: when the endpoint answers 2xx with a body holding the transcript t,
\* then at the end of the call <path>.json holds the whole body, <path>.txt
\* holds t without its trailing whitespace, <path>.error does not exist, and
\* t is what the call yields: the terminal front end has put it on the
\* clipboard and ends with 0, the window holds it in self.transcript.
C11_TranscriptionSuccess ==
    [][\A p \in Procs : \A t \in Finalizers :
        (/\ Ends(p, t) /\ Answered2xx(p, t)
         /\ th[p][t].response[1].body \in WithTranscript) =>
            Success(p, t, th[p][t].response[1].body)']_vars

\* thread t takes a step of its transcribe call
Steps(p, t) == th'[p][t].pc # th[p][t].pc

\* the call of thread t leaves every text file as it is
TxtUntouched(p, t) == Steps(p, t) => txt_file' = txt_file

\* the endpoint answered the call of thread t with a 2xx status and a JSON
\* body without the transcript
AnsweredMalformed(p, t) ==
    /\ Answered2xx(p, t)
    /\ th[p][t].response[1].body \in Bodies \ WithTranscript

\* what C12 promises at the end of a call answered with a body without a
\* transcript
Malformed(p, t, body) ==
    /\ json_file[th[p][t].file[1]] = <<body>>
    /\ kind[p] = "cli" => exit[p] = "exit1" /\ th[p]["main"].pc = "L198"
    /\ kind[p] = "gui" =>
           /\ ui[p].transcript = <<>>
           /\ ui[p].status = "Error: Failed to extract transcript."

\* C12: when the endpoint answers 2xx with a body without the transcript (a
\* missing key, an empty channels list or an empty alternatives list), the
\* call ends with the malformed-response outcome (the terminal front end
\* ends with 1, the window has an empty transcript) and with <path>.json
\* holding that body, and no step of the call creates or modifies
\* <path>.txt.
C12_MalformedResponse ==
    [][\A p \in Procs : \A t \in Finalizers :
        AnsweredMalformed(p, t) =>
            /\ TxtUntouched(p, t)
            /\ Ends(p, t) => Malformed(p, t, th[p][t].response[1].body)']_vars

\* the request of thread t has failed in transport: no answer at all, or an
\* answer with a status outside 2xx
TransportFailed(p, t) ==
    /\ th[p][t].pc \in {"L190", "G359", "G361"}
    /\ \/ th[p][t].response = <<>>
       \/ th[p][t].response[1].status \notin 200..299

\* what C13 promises at the end of a call whose request failed
Transport(p, t) ==
    LET f == th[p][t].file[1]
    IN /\ error_file[f] # <<>> /\ error_file[f][1] # ""
       /\ kind[p] = "cli" => exit[p] = "exit1"
       /\ kind[p] = "gui" =>
              /\ ui[p].transcript = <<>>
              /\ ui[p].status = "Error: Transcription failed."

\* C13: when the request fails with a connection error or a status outside
\* 2xx, the call ends with the transport outcome and with <path>.error
\* holding a non-empty detail, and no step of the call creates or modifies
\* <path>.txt or makes another request (no retry).
C13_TransportFailure ==
    [][\A p \in Procs : \A t \in Finalizers :
        TransportFailed(p, t) =>
            /\ TxtUntouched(p, t)
            /\ Steps(p, t) => nreq' = nreq
            /\ Ends(p, t) => Transport(p, t)']_vars

\* C14: whenever the call has received a response from the endpoint, of any
\* status and with any body, <path>.json holds the raw body of that response
\* when the call ends.
C14_JsonOnEveryResponse ==
    [][\A p \in Procs : \A t \in Finalizers :
        (Ends(p, t) /\ th[p][t].response # <<>>) =>
            json_file'[th[p][t].file[1]] = <<th[p][t].response[1].body>>]_vars

(* --------------------- properties of the exit status ------------------ *)
\* the exit status of a process that has ended: sys.exit(n) gives n, an
\* exception nothing catches gives 1, a process ended by a signal has none
ExitCode(p) ==
    IF exit[p] = "exit0" THEN 0
    ELSE IF exit[p] \in {"exit1", "traceback"} THEN 1
    ELSE -1

\* SIGINT was received with the handler installed
Interrupted(p) == th[p]["sig"].pc # "off"

\* the run ended in full success: the waveform written, the transcript
\* extracted and saved
FullSuccess(p) ==
    /\ ~Interrupted(p)
    /\ session[p] >= 1 /\ nwrites[p][session[p]] >= 1
    /\ Answered2xx(p, "main")
    /\ th[p]["main"].response[1].body \in WithTranscript
    /\ txt_file[th[p]["main"].file[1]] =
           <<rstrip(TranscriptOf(th[p]["main"].response[1].body))>>

\* the run ended by an interrupt, after the handler's cleanup
InterruptedAfterCleanup(p) ==
    /\ th[p]["sig"].pc = "L79"
    /\ PID_FILE = <<>> /\ AUDIO_FILE_TRACKER = <<>>
    /\ recording_process[p] = None

\* C15: the terminal front end ends with 0 exactly when the run ends in full
\* success or by an interrupt after cleanup, and with 1 when the credential
\* is missing (no session started, no device opened), when the recording is
\* empty, when the audio file is missing as transcribe starts (no request
\* made), when the request fails in transport, and when the response is
\* malformed.
C15_ExitCodes ==
    \A p \in Procs :
        (kind[p] = "cli" /\ exit[p] \notin {"running", "killed"}) =>
            LET pc == th[p]["main"].pc
            IN /\ ExitCode(p) = 0 <=> FullSuccess(p) \/ InterruptedAfterCleanup(p)
               /\ ~api_key[p] =>
                      /\ ExitCode(p) = 1
                      /\ session[p] = 0 /\ target[p] = <<>>
                      /\ \A h \in Sessions : stream[p][h] = "none"
               /\ (~Interrupted(p) /\ pc = "L146") => ExitCode(p) = 1
               /\ (~Interrupted(p) /\ pc = "L157") =>
                      ExitCode(p) = 1 /\ nreq[p][session[p]] = 0
               /\ (~Interrupted(p) /\ TransportFailed(p, "main")) => ExitCode(p) = 1
               /\ (~Interrupted(p) /\ AnsweredMalformed(p, "main")) => ExitCode(p) = 1

\* C15, witness: the recording was written and then removed, and the run has
\* ended with 1 at line 157 without a request
C15_Witness ==
    \E p \in Procs :
        /\ kind[p] = "cli" /\ exit[p] = "exit1" /\ ~Interrupted(p)
        /\ th[p]["main"].pc = "L157"
        /\ nwrites[p][session[p]] = 1 /\ nreq[p][session[p]] = 0
        /\ wav[th[p]["main"].file[1]] = <<>>

(* ------------------------ properties of the stop ---------------------- *)
\* thread t runs the branch of stop_recording that found no recording: it
\* reports "No recording to stop." and, in the terminal front end, ends the
\* process with 1
StopFoundNone(p, t) ==
    \/ th[p][t].pc \in {"L150", "G310", "G312"}
    \/ th[p][t].ret \in {"L150", "G312"}

\* C16: the stop is idempotent and does nothing without an active session:
\* however often the stop of a session is requested, the session is
\* finalized once (one file write), and a stop_recording that finds no
\* active session reports no failure and ends no process.
C16_StopIdempotent ==
    \A p \in Procs :
        /\ \A s \in Sessions : nwrites[p][s] <= 1
        /\ \A t \in Finalizers : ~StopFoundNone(p, t)

(* ------------------ properties of the device acquisition -------------- *)
\* opening or starting the input stream of the current session has raised:
\* the terminal front end has ended with a traceback at line 108 or 111; the
\* window has aborted at line 260 or 263, or its slot was left and the event
\* loop runs on with the stream of the session never started
DeviceFailed(p) ==
    \/ /\ kind[p] = "cli" /\ exit[p] = "traceback"
       /\ th[p]["main"].pc \in {"L108", "L111"}
    \/ /\ kind[p] = "gui" /\ exit[p] = "abort"
       /\ th[p]["main"].pc \in {"G260", "G263"}
    \/ /\ kind[p] = "gui" /\ exit[p] = "running"
       /\ th[p]["main"].pc = "idle"
       /\ session[p] >= 1 /\ stream[p][session[p]] \in {"none", "open"}

\* C17: when opening or starting the input stream fails, both markers are
\* absent afterwards (the path marker already written is removed) and no
\* transcription request is made for the session.
C17_DeviceFailure ==
    \A p \in Procs :
        DeviceFailed(p) =>
            /\ PID_FILE = <<>> /\ AUDIO_FILE_TRACKER = <<>>
            /\ nreq[p][session[p]] = 0

(* ---------------------- properties of the controls -------------------- *)
\* the texts the window puts in the status line after a failure
FailureTexts ==
    {"No audio data recorded.", "No recording to stop.",
     "Error: Audio file missing or not set", "Error: Transcription failed.",
     "Error: Failed to extract transcript."}

\* the controls are in the ready state
Ready(p) == ui[p].start_button /\ ~ui[p].stop_button /\ ui[p].inputs

\* the window is running and waits for the user: the main thread is in the
\* event loop and no watcher thread is alive
GuiAtRest(p) ==
    /\ kind[p] = "gui" /\ exit[p] = "running" /\ ~ui[p].quitting
    /\ th[p]["main"].pc = "idle"
    /\ \A w \in Watchers : th[p][w].pc = "off"

\* C18: in the window every recoverable failure (empty recording, no
\* recording to stop, device acquisition failure, missing audio, transport
\* failure, malformed response) leaves the process running and the controls
\* ready (Start enabled, Stop disabled, inputs enabled) with the failure in
\* the status line.
C18_GuiRecovery ==
    \A p \in Procs :
        /\ (GuiAtRest(p) /\ ui[p].status \in FailureTexts) => Ready(p)
        /\ (kind[p] = "gui" /\ DeviceFailed(p)) =>
               /\ exit[p] = "running"
               /\ Ready(p)
               /\ ui[p].status \in FailureTexts

(* ---------------------- properties of the clipboard ------------------- *)
\* C19: in both front ends a call answered 2xx with the transcript t ends
\* with t on the system clipboard, put there by transcribe itself.
C19_ClipboardDelivery ==
    [][\A p \in Procs : \A t \in Finalizers :
        (/\ Ends(p, t) /\ Answered2xx(p, t)
         /\ th[p][t].response[1].body \in WithTranscript) =>
            clipboard' = <<TranscriptOf(th[p][t].response[1].body)>>]_vars

(* ------------------- properties of the active session ----------------- *)
\* thread t is finalizing session h of process p: it has passed the test of
\* line 282 and read the path of the recording (line 284), and runs the rest
\* of stop_recording or transcribe for it
Finalizing(p, t, h) ==
    /\ th[p][t].pc \notin {"off", "idle"}
    /\ th[p][t].fin = h
    /\ th[p][t].file # <<>>

\* C20: while a session of the window is capturing or being finalized, or
\* its transcription call is in flight, no new session starts: at most one
\* input stream is open, and start_recording has not run again while a
\* thread is still finalizing or transcribing an earlier session.
C20_OneActiveSession ==
    \A p \in Procs :
        kind[p] = "gui" =>
            /\ Cardinality({h \in Sessions : stream[p][h] \in {"open", "active"}}) <= 1
            /\ \A t \in Finalizers : \A h \in Sessions :
                   Finalizing(p, t, h) => session[p] = h

(* ------------------- properties of the watcher thread ----------------- *)
\* the step in which the watcher thread w of process p finds stop_event
\* unset at line 271, sets it (line 272) and calls stop_recording (line 273)
WatcherStops(p, w) == th[p][w].pc = "G271" /\ th'[p][w].pc = "G280"

\* C22: the watcher thread created for session N sets stop_event and calls
\* stop_recording only while N is the current session, never on a later
\* session N+1.
C22_NoCrossSessionStop ==
    [][\A p \in Procs : \A w \in Watchers :
        WatcherStops(p, w) => session[p] = th[p][w].ses]_vars

(* ---------------------- properties of termination --------------------- *)
\* session h of process p is capturing: its input stream is started
CapturingSession(p, h) == stream[p][h] = "active"

\* session h of process p is over: its stream is stopped and closed, both
\* markers are removed, and the process has ended or no thread of it is
\* still finalizing session h
SessionOver(p, h) ==
    /\ stream[p][h] = "closed"
    /\ PID_FILE = <<>> /\ AUDIO_FILE_TRACKER = <<>>
    /\ \/ exit[p] # "running"
       \/ \A t \in Finalizers :
              th[p][t].fin = h => th[p][t].pc \in {"off", "idle"}

\* the user has asked for the end of the session or of the program: Enter or
\* the Stop button (manual), or the Quit button
UserEnded(p) ==
    manual[p] \/ ui[p].quitting \/ th[p]["main"].ret = "G178"

\* with no request of the user the timeout alone ends every session
TimeoutAloneSuffices ==
    \A p \in Procs : \A h \in Sessions :
        CapturingSession(p, h) ~> (SessionOver(p, h) \/ UserEnded(p))

\* C21: under fair scheduling every session that enters Capturing is
\* eventually over, with the device released and both markers removed; the
\* timeout alone suffices, whether or not a block was captured.
C21_SessionTerminates ==
    \A p \in Procs : \A h \in Sessions :
        CapturingSession(p, h) ~> SessionOver(p, h)

====
